---- MODULE Spec2Model ----
(***************************************************************************)
(* Model of package generic (jayaprabhakar/porcupine): the power-set       *)
(* conversion of a NondeterministicModel (merge, ToModel's Init, Step and  *)
(* Equal), the type-erasure adapter Model.ToModel and the history          *)
(* converters.                                                             *)
(***************************************************************************)
EXTENDS Integers, Sequences, FiniteSets, TLC

VARIABLES
    pc,            \* position of the caller in the scenario being run
    eq,            \* merge: the eq argument (a func value)
    states,        \* merge: the states argument
    uniqueStates,  \* merge: the returned slice
    remerged,      \* merge applied to uniqueStates
    state1,        \* converted Equal / Step: first state-set
    state2,        \* converted Equal / Step: second state-set
    equal12,       \* converted Equal(state1, state2)
    equal21,       \* converted Equal(state2, state1)
    nmEqual,       \* nm.Equal: the caller's equality on states, or nil
    nmStep,        \* nm.Step(s, input, output) for the (input, output) of the call, per state s
    ok1,           \* converted Step(state1, input, output): the success flag
    next1,         \*   and the next state-set
    ok2,           \* converted Step(state2, input, output): the success flag
    next2,         \*   and the next state-set
    cur,           \* the state-set the checking engine holds
    steps,         \* successful Steps since Init
    typeS,         \* the type argument S of Model[S, I, O]
    typeI,         \* the type argument I
    typeO,         \* the type argument O
    typedHistory,  \* a typed history: []Operation[I, O] or []Event[I, O]
    untypedHistory,\* an opaque history: []porcupine.Operation or []porcupine.Event
    rehydrated,    \* what convertToTyped... makes of untypedHistory
    args,          \* the dynamic values handed to an adapted function of Model.ToModel
    answer,        \* what the typed user callback answers when it is invoked
    callback,      \* whether the typed user callback was invoked, and with what
    ret            \* what the adapted function returned

mergeVars == <<eq, states, uniqueStates, remerged>>
equalVars == <<equal12, equal21>>
stepVars == <<nmStep, ok1, next1, ok2, next2>>
runVars == <<cur, steps>>
convVars == <<typeS, typeI, typeO, typedHistory, untypedHistory, rehydrated,
              args, answer, callback, ret>>
vars == <<pc, mergeVars, state1, state2, equalVars, nmEqual, stepVars, runVars, convVars>>

\* ---------------------------------------------------------------- bounds
NumStates == 2     \* underlying states are 1..NumStates
MaxLen == 3        \* longest list of states handed to merge / returned by nm.Init
MaxNext == 3       \* most states nm.Step returns, in all, for one (input, output)
MaxSteps == 2      \* longest run of successful Steps after Init
MaxVal == 1        \* values of a concrete type are 0..MaxVal, 0 its zero value
MaxHist == 2       \* longest history converted

States == 1..NumStates

RECURSIVE SeqsOfLen(_, _)
SeqsOfLen(S, n) ==
    IF n = 0 THEN {<<>>}
    ELSE {Append(s, x) : s \in SeqsOfLen(S, n - 1), x \in S}

SeqsUpTo(S, n) == UNION {SeqsOfLen(S, k) : k \in 0..n}

Range(s) == {s[k] : k \in 1..Len(s)}

\* ------------------------------------------------------- function values
\* A Go func value of type func(S, S) bool: nil, or a predicate given by the
\* set of pairs it returns true on.
NilFunc == [isNil |-> TRUE, rel |-> {}]
FuncOf(r) == [isNil |-> FALSE, rel |-> r]
Call(f, a, b) == <<a, b>> \in f.rel

AllFuncs == {FuncOf(r) : r \in SUBSET (States \X States)}

IsReflexive(f) == \A a \in States : Call(f, a, a)
IsSymmetric(f) == \A a, b \in States : Call(f, a, b) => Call(f, b, a)
IsTransitive(f) ==
    \A a, b, c \in States : Call(f, a, b) /\ Call(f, b, c) => Call(f, a, c)
IsEquivalence(f) == IsReflexive(f) /\ IsSymmetric(f) /\ IsTransitive(f)

\* The outcome of a call that ends in a run-time panic instead of returning.
Panic == <<-1>>

\* ------------------------------------------------------------------ merge
\* model.go:392-407.  The outer loop at index i with accumulator acc; the
\* inner loop calls eq(state, us) for the accumulated us until one is true.
\* Calling a nil eq panics, which happens at the first inner iteration.
RECURSIVE mergeLoop(_, _, _, _)
mergeLoop(sts, f, i, acc) ==
    IF i > Len(sts) THEN acc
    ELSE IF acc # <<>> /\ f.isNil THEN Panic
    ELSE LET state == sts[i]
             unique == ~ \E k \in 1..Len(acc) : Call(f, state, acc[k])
         IN mergeLoop(sts, f, i + 1, IF unique THEN Append(acc, state) ELSE acc)

\* Mutant: every state is appended (the uniqueness test is lost).
mergeKeepAll(sts, f) == sts

\* Mutant: a unique state is put in front of the accumulator.
RECURSIVE mergePrependLoop(_, _, _, _)
mergePrependLoop(sts, f, i, acc) ==
    IF i > Len(sts) THEN acc
    ELSE LET state == sts[i]
             unique == ~ \E k \in 1..Len(acc) : Call(f, state, acc[k])
         IN mergePrependLoop(sts, f, i + 1, IF unique THEN <<state>> \o acc ELSE acc)
mergePrepend(sts, f) == mergePrependLoop(sts, f, 1, <<>>)

merge(sts, f) == mergeLoop(sts, f, 1, <<>>)

\* ------------------------------------------------- types and dynamic values
\* A type argument is a concrete type, whose values are held directly, or an
\* interface type, whose values are dynamic values (nil included).
Concrete(n) == [kind |-> "concrete", name |-> n]
Iface(n) == [kind |-> "iface", name |-> n]

\* A Go value of type any: nil, or a value boxed with its dynamic type.
NilAny == [dyn |-> "nil", val |-> 0]
Box(n, v) == [dyn |-> n, val |-> v]

Vals == 0..MaxVal

\* The values of a type argument; an interface type holds nil and the boxed
\* values of the concrete type of the same name.
ValuesOf(T) ==
    IF T.kind = "concrete" THEN Vals
    ELSE {NilAny} \cup {Box(T.name, v) : v \in Vals}

\* var x T: the zero value.
Zero(T) == IF T.kind = "concrete" THEN 0 ELSE NilAny

\* A call returns a value or ends in a run-time panic.
Ret(v) == [panic |-> FALSE, val |-> v]
Panicked == [panic |-> TRUE, val |-> 0]

\* The conversion of a value of type T to any (an assignment to an any field).
Erase(T, x) == IF T.kind = "concrete" THEN Box(T.name, x) ELSE x

\* Mutant: the comma-ok form, which yields the zero value on a mismatch.
DowncastOrZero(T, a) ==
    IF T.kind = "concrete"
    THEN IF a.dyn = T.name THEN Ret(a.val) ELSE Ret(Zero(T))
    ELSE Ret(a)

\* The type assertion a.(T): it holds when a is not nil and its dynamic type
\* is T (T concrete) or implements T (T an interface type, here any); it
\* panics otherwise.
Downcast(T, a) ==
    IF T.kind = "concrete"
    THEN IF a.dyn = T.name THEN Ret(a.val) ELSE Panicked
    ELSE IF a = NilAny THEN Panicked ELSE Ret(a)

NotInvoked == [invoked |-> FALSE, with |-> <<>>]
InvokedWith(typedArgs) == [invoked |-> TRUE, with |-> typedArgs]

AdapterUnused ==
    /\ args = <<>> /\ answer = <<>> /\ callback = NotInvoked /\ ret = Ret(<<>>)

ConvUnused ==
    /\ typeS = Concrete("S") /\ typeI = Concrete("I") /\ typeO = Concrete("O")
    /\ typedHistory = <<>> /\ untypedHistory = <<>> /\ rehydrated = Ret(<<>>)
    /\ AdapterUnused

\* nm.Step answers nothing: the value of the Step variables where no Step runs.
NoStep == [s \in States |-> <<>>]
StepUnused ==
    /\ nmStep = NoStep
    /\ ok1 = FALSE /\ next1 = <<>> /\ ok2 = FALSE /\ next2 = <<>>
    /\ cur = <<>> /\ steps = 0
    /\ ConvUnused

\* ============================================================ SpecMerge
\* merge as a pure function: any eq, any list; merge is applied, then applied
\* to its own result.
InitMerge ==
    /\ pc = "start"
    /\ eq \in AllFuncs
    /\ states \in SeqsUpTo(States, MaxLen)
    /\ uniqueStates = <<>>
    /\ remerged = <<>>
    /\ state1 = <<>> /\ state2 = <<>> /\ equal12 = FALSE /\ equal21 = FALSE
    /\ nmEqual = NilFunc /\ StepUnused

CallMerge ==
    /\ pc = "start"
    /\ uniqueStates' = merge(states, eq)
    /\ pc' = "merged"
    /\ UNCHANGED <<convVars, eq, states, remerged, state1, state2, equalVars, nmEqual, stepVars, runVars>>

CallMergeAgain ==
    /\ pc = "merged"
    /\ remerged' = merge(uniqueStates, eq)
    /\ pc' = "remerged"
    /\ UNCHANGED <<convVars, eq, states, uniqueStates, state1, state2, equalVars, nmEqual, stepVars, runVars>>

NextMerge == CallMerge \/ CallMergeAgain

SpecMerge == InitMerge /\ [][NextMerge]_vars

\* C4 (as amended): merge never keeps a state that eq reports equal to a state
\* kept before it (eq(later, earlier) is false for any eq); when eq is
\* symmetric no two kept states at distinct positions are eq-equal in either
\* argument order; when eq is an equivalence relation every element of the
\* input list is eq-equal to exactly one element of the result.
NoLaterEqualsEarlier(out, f) ==
    \A i, j \in 1..Len(out) : i < j => ~ Call(f, out[j], out[i])
NoTwoEqual(out, f) ==
    \A i, j \in 1..Len(out) : i # j => ~ Call(f, out[i], out[j])
EqualToExactlyOne(inp, out, f) ==
    \A i \in 1..Len(inp) :
        Cardinality({k \in 1..Len(out) : Call(f, inp[i], out[k])}) = 1
C4_MergeDedup ==
    pc = "merged" =>
        /\ NoLaterEqualsEarlier(uniqueStates, eq)
        /\ IsSymmetric(eq) => NoTwoEqual(uniqueStates, eq)
        /\ IsEquivalence(eq) => EqualToExactlyOne(states, uniqueStates, eq)

\* C4 witness: an equivalence eq, a list with a duplicate that merge drops
\* while keeping two states.
C4_Witness ==
    /\ pc = "merged"
    /\ IsEquivalence(eq)
    /\ Len(uniqueStates) >= 2
    /\ Len(uniqueStates) < Len(states)

\* C4 as stated: for any eq, not assumed reflexive, symmetric or transitive.
C4_Original ==
    pc = "merged" =>
        /\ NoTwoEqual(uniqueStates, eq)
        /\ EqualToExactlyOne(states, uniqueStates, eq)

\* C5: merge is idempotent: merging the result of merge again gives the same
\* states in the same order, for any eq.
C5_MergeIdempotent ==
    pc = "remerged" => remerged = uniqueStates

\* C5 witness: a non-symmetric eq, a merge that dropped a state and kept two,
\* merged a second time.
C5_Witness ==
    /\ pc = "remerged"
    /\ ~ IsSymmetric(eq)
    /\ Len(uniqueStates) >= 2
    /\ Len(uniqueStates) < Len(states)

\* ------------------------------------------------- ToModel: equal, Equal
\* model.go:411-415: == on the two states, boxed as any.  The states modelled
\* are comparable values on which == is identity.
shallowEqual == FuncOf({<<a, a>> : a \in States})

\* model.go:334-337: equal := nm.Equal, or shallowEqual when that is nil.
equalOf(nmEq) == IF nmEq.isNil THEN shallowEqual ELSE nmEq

\* Mutant: inclusion is tested for the first element of state1 only.
ModelEqualFirstOnly(st1, st2, f) ==
    /\ Len(st1) = Len(st2)
    /\ st1 # <<>> => \E j \in 1..Len(st2) : Call(f, st1[1], st2[j])

\* model.go:363-380: the converted Model's Equal on two state-sets.
ModelEqual(st1, st2, f) ==
    IF Len(st1) # Len(st2) THEN FALSE
    ELSE \A i \in 1..Len(st1) : \E j \in 1..Len(st2) : Call(f, st1[i], st2[j])

\* ============================================================ SpecEqual
\* The converted Equal on two state-sets that are both results of merge under
\* the same eq, called in both argument orders.
MergedSets(f) == {merge(l, f) : l \in SeqsUpTo(States, MaxLen)}

InitEqual ==
    /\ pc = "start"
    /\ eq \in AllFuncs
    /\ state1 \in MergedSets(eq)
    /\ state2 \in MergedSets(eq)
    /\ equal12 = FALSE /\ equal21 = FALSE
    /\ states = <<>> /\ uniqueStates = <<>> /\ remerged = <<>>
    /\ nmEqual = NilFunc /\ StepUnused

CallEqual12 ==
    /\ pc = "start"
    /\ equal12' = ModelEqual(state1, state2, eq)
    /\ pc' = "half"
    /\ UNCHANGED <<convVars, mergeVars, state1, state2, equal21, nmEqual, stepVars, runVars>>

CallEqual21 ==
    /\ pc = "half"
    /\ equal21' = ModelEqual(state2, state1, eq)
    /\ pc' = "compared"
    /\ UNCHANGED <<convVars, mergeVars, state1, state2, equal12, nmEqual, stepVars, runVars>>

NextEqual == CallEqual12 \/ CallEqual21

SpecEqual == InitEqual /\ [][NextEqual]_vars

Included(a, b, f) == \A i \in 1..Len(a) : \E j \in 1..Len(b) : Call(f, a[i], b[j])

\* C3 (as amended): on two merged state-sets, Equal(X, Y) is true iff X and Y
\* have the same length and every element of X is eq-equal to some element of
\* Y; when eq is symmetric and transitive that coincides with two-way
\* inclusion and Equal(X, Y) = Equal(Y, X).
C3_EqualOnMerged ==
    pc = "compared" =>
        /\ equal12 = (Len(state1) = Len(state2) /\ Included(state1, state2, eq))
        /\ (IsSymmetric(eq) /\ IsTransitive(eq)) =>
              /\ equal12 => Included(state2, state1, eq)
              /\ equal12 = equal21

\* C3 witness: two merged sets of two states listed in different orders, found
\* Equal under a symmetric and transitive eq.
C3_Witness ==
    /\ pc = "compared"
    /\ IsSymmetric(eq) /\ IsTransitive(eq)
    /\ Len(state1) >= 2
    /\ state1 # state2
    /\ equal12

\* C3 as stated: for merged sets under any eq.
C3_Original ==
    pc = "compared" =>
        /\ equal12 = (Len(state1) = Len(state2) /\ Included(state1, state2, eq))
        /\ equal12 => Included(state2, state1, eq)
        /\ equal12 = equal21

\* ---------------------------------------------------------- ToModel: Step
\* model.go:354-357: allNextStates after the loop over the state-set; row[s]
\* is nm.Step(s, input, output).
RECURSIVE stepLoop(_, _, _, _)
stepLoop(state, row, i, allNextStates) ==
    IF i > Len(state) THEN allNextStates
    ELSE stepLoop(state, row, i + 1, allNextStates \o row[state[i]])

\* Mutant: only the first element of the state-set is stepped.
ModelStepFirstOnly(state, row, nmEq) ==
    LET allNextStates == IF state = <<>> THEN <<>> ELSE row[state[1]]
        uniqueNextStates == merge(allNextStates, equalOf(nmEq))
    IN [ok |-> Len(uniqueNextStates) > 0, next |-> uniqueNextStates]

\* model.go:353-360: the converted Model's Step.
ModelStep(state, row, nmEq) ==
    LET allNextStates == stepLoop(state, row, 1, <<>>)
        uniqueNextStates == merge(allNextStates, equalOf(nmEq))
    IN [ok |-> Len(uniqueNextStates) > 0, next |-> uniqueNextStates]

\* The caller's nm.Equal: nil, or an equality (an equivalence relation) on states.
NmEquals == {NilFunc} \cup {f \in AllFuncs : IsEquivalence(f)}

\* What nm.Step can answer for one (input, output): a list of states per state,
\* at most MaxNext states in all (any order, repetitions included).
Cuts(n) ==
    {c \in [0..NumStates -> 0..n] :
        c[0] = 0 /\ c[NumStates] = n /\ \A s \in States : c[s - 1] <= c[s]}
NmStepAnswers ==
    UNION {{[s \in States |-> SubSeq(flat, c[s - 1] + 1, c[s])] : c \in Cuts(Len(flat))} :
              flat \in SeqsUpTo(States, MaxNext)}

\* ============================================================= SpecStep
\* The converted Step on two merged state-sets that the converted Equal
\* reports equal, for the same (input, output).
InitStep ==
    /\ pc = "start"
    /\ nmEqual \in NmEquals
    /\ state1 \in MergedSets(equalOf(nmEqual))
    /\ state2 \in MergedSets(equalOf(nmEqual))
    /\ ModelEqual(state1, state2, equalOf(nmEqual))
    /\ StepUnused
    /\ eq = NilFunc /\ states = <<>> /\ uniqueStates = <<>> /\ remerged = <<>>
    /\ equal12 = FALSE /\ equal21 = FALSE

CallStep1 ==
    /\ pc = "start"
    /\ \E row \in NmStepAnswers :
          LET r == ModelStep(state1, row, nmEqual)
          IN /\ nmStep' = row
             /\ ok1' = r.ok
             /\ next1' = r.next
    /\ pc' = "stepped1"
    /\ UNCHANGED <<convVars, mergeVars, state1, state2, equalVars, nmEqual, ok2, next2, runVars>>

CallStep2 ==
    /\ pc = "stepped1"
    /\ LET r == ModelStep(state2, nmStep, nmEqual)
       IN /\ ok2' = r.ok
          /\ next2' = r.next
    /\ pc' = "stepped2"
    /\ UNCHANGED <<convVars, mergeVars, state1, state2, equalVars, nmEqual, nmStep, ok1, next1, runVars>>

NextStep == CallStep1 \/ CallStep2

SpecStep == InitStep /\ [][NextStep]_vars

\* The concatenation, in the order of the state-set, of nm.Step's answers.
RECURSIVE Concat(_, _)
Concat(state, row) ==
    IF state = <<>> THEN <<>> ELSE row[Head(state)] \o Concat(Tail(state), row)

\* C1: Step(A, input, output) succeeds iff some element of A has a non-empty
\* nm.Step answer, and its next state-set is merge of the concatenation, in
\* A's order, of the answers: no two of its states are equal, each is one of
\* the answers and each answer is equal to one of them.  When every answer is
\* empty Step returns success = false.
C1_StepUnion ==
    pc \in {"stepped1", "stepped2"} =>
        LET all == Concat(state1, nmStep)
            f == equalOf(nmEqual)
        IN /\ ok1 = (\E i \in 1..Len(state1) : nmStep[state1[i]] # <<>>)
           /\ next1 = merge(all, f)
           /\ NoTwoEqual(next1, f)
           /\ Range(next1) \subseteq Range(all)
           /\ \A k \in 1..Len(all) : \E j \in 1..Len(next1) : Call(f, all[k], next1[j])
           /\ (\A i \in 1..Len(state1) : nmStep[state1[i]] = <<>>) => (~ ok1 /\ next1 = <<>>)

\* C1 witness: a state-set of two states, both with an answer, the answers
\* overlapping so that merge drops a state of the concatenation.
C1_Witness ==
    /\ pc = "stepped1"
    /\ Len(state1) >= 2
    /\ \A i \in 1..Len(state1) : nmStep[state1[i]] # <<>>
    /\ ok1
    /\ Len(next1) < Len(Concat(state1, nmStep))

\* Two lists of states hold the same states up to eq.
SameModulo(a, b, f) == Included(a, b, f) /\ Included(b, a, f)

\* nm.Step maps eq-equal states to answers that are equal as sets modulo eq.
Congruent(row, f) ==
    \A s, t \in States : Call(f, s, t) => SameModulo(row[s], row[t], f)

\* C10: with eq an equivalence relation and nm.Step answering eq-equal states
\* with the same states up to eq, the converted Step on two merged state-sets
\* that are Equal returns the same success flag and next state-sets that are
\* Equal.
C10_StepRespectsEqual ==
    (/\ pc = "stepped2"
     /\ IsEquivalence(equalOf(nmEqual))
     /\ Congruent(nmStep, equalOf(nmEqual))
     /\ ModelEqual(state1, state2, equalOf(nmEqual)))
    => /\ ok1 = ok2
       /\ ModelEqual(next1, next2, equalOf(nmEqual))
       /\ ModelEqual(next2, next1, equalOf(nmEqual))

\* C10 witness: two Equal state-sets listed differently, stepped with a
\* congruent nm.Step to next state-sets that are listed differently too.
C10_Witness ==
    /\ pc = "stepped2"
    /\ ~ nmEqual.isNil
    /\ Congruent(nmStep, equalOf(nmEqual))
    /\ state1 # state2
    /\ ok1
    /\ next1 # next2

\* ---------------------------------------------------------- ToModel: Init
\* model.go:350-352: merge(nm.Init(), nm.Equal); the eq handed to merge is the
\* field nm.Equal itself, not the local equal that holds the fallback.
ModelInit(init, nmEq) == merge(init, nmEq)

\* ================================================================= Spec
\* A run of the converted Model as the checking engine drives it: Init once,
\* then Steps, each continuing from the next state-set of the last successful
\* Step.  nm.Init and nm.Step are the caller's callbacks; what they answer is
\* drawn at each call.
Init ==
    /\ pc = "new"
    /\ nmEqual \in NmEquals
    /\ states = <<>>
    /\ cur = <<>> /\ steps = 0
    /\ nmStep = NoStep
    /\ ok1 = FALSE /\ next1 = <<>> /\ ok2 = FALSE /\ next2 = <<>>
    /\ eq = NilFunc /\ uniqueStates = <<>> /\ remerged = <<>>
    /\ state1 = <<>> /\ state2 = <<>> /\ equal12 = FALSE /\ equal21 = FALSE
    /\ ConvUnused

\* model.Init(): states is what nm.Init() answers.
CallInit ==
    /\ pc = "new"
    /\ \E init \in SeqsUpTo(States, MaxLen) :
          LET r == ModelInit(init, nmEqual)
          IN /\ states' = init
             /\ IF r = Panic
                THEN pc' = "panicked" /\ cur' = <<>>
                ELSE pc' = "inited" /\ cur' = r
    /\ UNCHANGED <<convVars, eq, uniqueStates, remerged, state1, state2, equalVars, nmEqual,
                   stepVars, steps>>

\* model.Step(cur, input, output): states is allNextStates, the list Step hands
\* to merge.  A rejected Step leaves the engine with the state-set it had.
CallStep ==
    /\ pc \in {"inited", "stepped"}
    /\ steps < MaxSteps
    /\ \E row \in NmStepAnswers :
          LET r == ModelStep(cur, row, nmEqual)
          IN /\ states' = stepLoop(cur, row, 1, <<>>)
             /\ ok1' = r.ok
             /\ next1' = r.next
             /\ cur' = IF r.ok THEN r.next ELSE cur
             /\ steps' = IF r.ok THEN steps + 1 ELSE steps
    /\ pc' = "stepped"
    /\ UNCHANGED <<convVars, eq, uniqueStates, remerged, state1, state2, equalVars, nmEqual,
                   nmStep, ok2, next2>>

Next == CallInit \/ CallStep

Spec == Init /\ [][Next]_vars

\* C2 as stated: Init returns nm.Init()'s states deduplicated with the caller's
\* Equal, or with the == fallback when nm.Equal is nil, and completes for every
\* list of initial states.
C2_InitDedup ==
    pc \in {"inited", "panicked"} =>
        /\ pc = "inited"
        /\ cur = merge(states, equalOf(nmEqual))

\* C9: with a caller-supplied Equal that is an equivalence relation, the
\* state-set returned by Init and the next state-set returned by Step after
\* any run of successful Steps hold no two eq-equal states.
C9_RunDeduplicated ==
    (~ nmEqual.isNil /\ IsEquivalence(nmEqual) /\ pc \in {"inited", "stepped"}) =>
        /\ NoTwoEqual(cur, nmEqual)
        /\ NoTwoEqual(next1, nmEqual)

\* C9 witness: after a successful Step, a second Step whose merge dropped a
\* state and kept two.
C9_Witness ==
    /\ pc = "stepped"
    /\ ~ nmEqual.isNil
    /\ steps >= 2
    /\ ok1
    /\ Len(cur) >= 2
    /\ Len(cur) < Len(states)

\* ------------------------------------------------------ history converter
\* model.go:199-211.
convertToUntypedOperations(TI, TO, partition) ==
    [j \in 1..Len(partition) |->
        [ClientId |-> partition[j].ClientId,
         Input |-> Erase(TI, partition[j].Input),
         Call |-> partition[j].Call,
         Output |-> Erase(TO, partition[j].Output),
         Return |-> partition[j].Return]]

\* model.go:215-223: the loop at index i; the first assertion that fails ends
\* the call.
RECURSIVE typedOperationsLoop(_, _, _, _, _)
typedOperationsLoop(TI, TO, history, i, typedOut) ==
    IF i > Len(history) THEN Ret(typedOut)
    ELSE LET op == history[i]
             input == Downcast(TI, op.Input)
             output == Downcast(TO, op.Output)
         IN IF input.panic \/ output.panic THEN Panicked
            ELSE typedOperationsLoop(TI, TO, history, i + 1,
                    Append(typedOut,
                        [ClientId |-> op.ClientId,
                         Input |-> input.val,
                         Call |-> op.Call,
                         Output |-> output.val,
                         Return |-> op.Return]))

\* model.go:213-225.
convertToTypedOperations(TI, TO, history) ==
    typedOperationsLoop(TI, TO, history, 1, <<>>)

\* porcupine.EventKind.
CallEvent == "call"
ReturnEvent == "return"

\* model.go:145-162.
convertToUntypedEvents(TI, TO, partition) ==
    [j \in 1..Len(partition) |->
        LET ev == partition[j]
            value == IF ev.Kind = CallEvent THEN Erase(TI, ev.Input)
                     ELSE Erase(TO, ev.Output)
        IN [ClientId |-> ev.ClientId, Kind |-> ev.Kind, Value |-> value, Id |-> ev.Id]]

\* model.go:166-182: the loop at index i.
RECURSIVE typedEventsLoop(_, _, _, _, _)
typedEventsLoop(TI, TO, history, i, typedOut) ==
    IF i > Len(history) THEN Ret(typedOut)
    ELSE LET ev == history[i]
             input == IF ev.Kind = CallEvent THEN Downcast(TI, ev.Value)
                      ELSE Ret(Zero(TI))
             output == IF ev.Kind = CallEvent THEN Ret(Zero(TO))
                       ELSE Downcast(TO, ev.Value)
         IN IF input.panic \/ output.panic THEN Panicked
            ELSE typedEventsLoop(TI, TO, history, i + 1,
                    Append(typedOut,
                        [ClientId |-> ev.ClientId,
                         Kind |-> ev.Kind,
                         Input |-> input.val,
                         Output |-> output.val,
                         Id |-> ev.Id]))

\* model.go:164-184.
convertToTypedEvents(TI, TO, history) ==
    typedEventsLoop(TI, TO, history, 1, <<>>)

\* The type arguments a caller can give: a concrete type or an interface type.
TypeArgs(n) == {Concrete(n), Iface(n)}

\* model.go:20-26: the Operation[I, O] records drawn (zero-indexed client ids,
\* Call <= Return).
Operations(TI, TO) ==
    {[ClientId |-> c, Input |-> i, Call |-> 1, Output |-> o, Return |-> r] :
        c \in 0..1, i \in ValuesOf(TI), o \in ValuesOf(TO), r \in 1..2}

\* model.go:38-44: the Event[I, O] records drawn; both value fields are free.
Events(TI, TO) ==
    {[ClientId |-> c, Kind |-> k, Input |-> i, Output |-> o, Id |-> c + 2] :
        c \in 0..1, k \in {CallEvent, ReturnEvent}, i \in ValuesOf(TI), o \in ValuesOf(TO)}

InitConvert ==
    /\ pc = "start"
    /\ typeS = Concrete("S")
    /\ typeI \in TypeArgs("I")
    /\ typeO \in TypeArgs("O")
    /\ untypedHistory = <<>>
    /\ rehydrated = Ret(<<>>)
    /\ AdapterUnused
    /\ eq = NilFunc /\ states = <<>> /\ uniqueStates = <<>> /\ remerged = <<>>
    /\ state1 = <<>> /\ state2 = <<>> /\ equal12 = FALSE /\ equal21 = FALSE
    /\ nmEqual = NilFunc
    /\ nmStep = NoStep
    /\ ok1 = FALSE /\ next1 = <<>> /\ ok2 = FALSE /\ next2 = <<>>
    /\ cur = <<>> /\ steps = 0

convFrame ==
    <<mergeVars, state1, state2, equalVars, nmEqual, stepVars, runVars, typeS, typeI, typeO,
      args, answer, callback, ret>>

\* ====================================================== SpecOperations
\* A typed operation history is erased and rehydrated.
InitOperations ==
    /\ InitConvert
    /\ typedHistory \in SeqsUpTo(Operations(typeI, typeO), MaxHist)

CallConvertToUntypedOperations ==
    /\ pc = "start"
    /\ untypedHistory' = convertToUntypedOperations(typeI, typeO, typedHistory)
    /\ pc' = "erased"
    /\ UNCHANGED <<convFrame, typedHistory, rehydrated>>

CallConvertToTypedOperations ==
    /\ pc = "erased"
    /\ rehydrated' = convertToTypedOperations(typeI, typeO, untypedHistory)
    /\ pc' = "rehydrated"
    /\ UNCHANGED <<convFrame, typedHistory, untypedHistory>>

NextOperations == CallConvertToUntypedOperations \/ CallConvertToTypedOperations

SpecOperations == InitOperations /\ [][NextOperations]_vars

\* C6 as stated: for every typed Operation sequence H,
\* convertToTypedOperations(convertToUntypedOperations(H)) returns H: the same
\* length and order and, at each position, the same ClientId, Input, Call,
\* Output and Return.
C6_OperationRoundTrip ==
    pc = "rehydrated" =>
        /\ ~ rehydrated.panic
        /\ Len(rehydrated.val) = Len(typedHistory)
        /\ \A j \in 1..Len(typedHistory) : rehydrated.val[j] = typedHistory[j]

\* The round trip on histories that hold no nil interface value.
NoNilOperation(H) ==
    \A j \in 1..Len(H) : H[j].Input # NilAny /\ H[j].Output # NilAny
OperationRoundTripOnNonNil ==
    (pc = "rehydrated" /\ NoNilOperation(untypedHistory)) =>
        (~ rehydrated.panic /\ rehydrated.val = typedHistory)

\* ========================================================== SpecEvents
\* A typed event history is erased and rehydrated.
InitEvents ==
    /\ InitConvert
    /\ typedHistory \in SeqsUpTo(Events(typeI, typeO), MaxHist)

CallConvertToUntypedEvents ==
    /\ pc = "start"
    /\ untypedHistory' = convertToUntypedEvents(typeI, typeO, typedHistory)
    /\ pc' = "erased"
    /\ UNCHANGED <<convFrame, typedHistory, rehydrated>>

CallConvertToTypedEvents ==
    /\ pc = "erased"
    /\ rehydrated' = convertToTypedEvents(typeI, typeO, untypedHistory)
    /\ pc' = "rehydrated"
    /\ UNCHANGED <<convFrame, typedHistory, untypedHistory>>

NextEvents == CallConvertToUntypedEvents \/ CallConvertToTypedEvents

SpecEvents == InitEvents /\ [][NextEvents]_vars

\* Every event holds the zero value in the slot its kind does not use.
UnusedSlotsZero(H) ==
    \A j \in 1..Len(H) :
        IF H[j].Kind = CallEvent THEN H[j].Output = Zero(typeO)
        ELSE H[j].Input = Zero(typeI)

\* What C7 says of a rehydrated history R of H, with opaque history U between.
EventRoundTrip(H, U, R) ==
    /\ Len(R) = Len(H)
    /\ \A j \in 1..Len(H) :
          /\ R[j].ClientId = H[j].ClientId
          /\ R[j].Kind = H[j].Kind
          /\ R[j].Id = H[j].Id
          /\ IF H[j].Kind = CallEvent
             THEN /\ U[j].Value = Erase(typeI, H[j].Input)
                  /\ R[j].Input = H[j].Input
                  /\ R[j].Output = Zero(typeO)
             ELSE /\ U[j].Value = Erase(typeO, H[j].Output)
                  /\ R[j].Output = H[j].Output
                  /\ R[j].Input = Zero(typeI)
    /\ UnusedSlotsZero(H) => R = H

\* C7 as stated: for every typed Event sequence H the round trip keeps length,
\* order, ClientId, Kind and Id; the value slot carries the Input of a call
\* event and the Output of a return event; a rehydrated call event has the
\* original Input and the zero Output, a rehydrated return event the original
\* Output and the zero Input; H is reproduced when its unused slots are zero.
C7_EventRoundTrip ==
    pc = "rehydrated" =>
        /\ ~ rehydrated.panic
        /\ EventRoundTrip(typedHistory, untypedHistory, rehydrated.val)

\* The round trip on histories whose opaque value slots hold no nil.
NoNilEvent(U) == \A j \in 1..Len(U) : U[j].Value # NilAny
EventRoundTripOnNonNil ==
    (pc = "rehydrated" /\ NoNilEvent(untypedHistory)) =>
        (~ rehydrated.panic
         /\ EventRoundTrip(typedHistory, untypedHistory, rehydrated.val))

\* --------------------------------------------------- type-erasure adapter
\* What an adapted function of Model.ToModel does with the assertions
\* asserted, in argument order, before the typed callback is called: a failed
\* assertion panics and the callback is not reached; otherwise the callback is
\* invoked with the asserted values and result (its answer, re-erased) returned.
Adapted(asserted, result) ==
    IF \E k \in 1..Len(asserted) : asserted[k].panic
    THEN [panic |-> TRUE, callback |-> NotInvoked, val |-> <<>>]
    ELSE [panic |-> FALSE,
          callback |-> InvokedWith([k \in 1..Len(asserted) |-> asserted[k].val]),
          val |-> result]

\* model.go:110-112: model.Step; ans is what m.Step answers, <<ok, state>>.
adaptedStep(TS, TI, TO, state, input, output, ans) ==
    Adapted(<<Downcast(TS, state), Downcast(TI, input), Downcast(TO, output)>>,
            <<ans[1], Erase(TS, ans[2])>>)

\* model.go:115-117: model.Equal; ans is what m.Equal answers.
adaptedEqual(TS, s1, s2, ans) ==
    Adapted(<<Downcast(TS, s1), Downcast(TS, s2)>>, ans)

\* model.go:120-122: model.DescribeOperation; ans is the description.
adaptedDescribeOperation(TI, TO, input, output, ans) ==
    Adapted(<<Downcast(TI, input), Downcast(TO, output)>>, ans)

\* model.go:125-127: model.DescribeState; ans is the description.
adaptedDescribeState(TS, state, ans) ==
    Adapted(<<Downcast(TS, state)>>, ans)

\* The dynamic values the engine, or a caller who assembled an opaque history
\* by hand, can hand in: nil and boxed values of the three concrete types.
DynTypes == {"S", "I", "O"}
DynVals == {NilAny} \cup {Box(n, v) : n \in DynTypes, v \in Vals}
OpaqueVals == {NilAny} \cup {Box(n, MaxVal) : n \in DynTypes}

\* porcupine.Operation and porcupine.Event records with any values.
OpaqueOperations ==
    {[ClientId |-> 0, Input |-> i, Call |-> 1, Output |-> o, Return |-> 2] :
        i \in OpaqueVals, o \in OpaqueVals}
OpaqueEvents ==
    {[ClientId |-> 0, Kind |-> k, Value |-> v, Id |-> 2] :
        k \in {CallEvent, ReturnEvent}, v \in OpaqueVals}

\* ========================================================= SpecAdapter
\* One call of an adapted function of Model.ToModel, or of an opaque-to-typed
\* history conversion, with dynamic values of any type.
InitAdapter ==
    /\ pc = "idle"
    /\ typeS \in TypeArgs("S")
    /\ typeI \in TypeArgs("I")
    /\ typeO \in TypeArgs("O")
    /\ typedHistory = <<>> /\ untypedHistory = <<>> /\ rehydrated = Ret(<<>>)
    /\ AdapterUnused
    /\ eq = NilFunc /\ states = <<>> /\ uniqueStates = <<>> /\ remerged = <<>>
    /\ state1 = <<>> /\ state2 = <<>> /\ equal12 = FALSE /\ equal21 = FALSE
    /\ nmEqual = NilFunc
    /\ nmStep = NoStep
    /\ ok1 = FALSE /\ next1 = <<>> /\ ok2 = FALSE /\ next2 = <<>>
    /\ cur = <<>> /\ steps = 0

adapterFrame ==
    <<mergeVars, state1, state2, equalVars, nmEqual, stepVars, runVars, typeS, typeI, typeO,
      typedHistory>>

Returned(r) ==
    /\ callback' = r.callback
    /\ ret' = [panic |-> r.panic, val |-> r.val]

CallAdaptedStep ==
    /\ pc = "idle"
    /\ \E state \in DynVals, input \in DynVals, output \in DynVals,
          ok \in BOOLEAN, newState \in ValuesOf(typeS) :
          /\ args' = <<state, input, output>>
          /\ answer' = <<ok, newState>>
          /\ Returned(adaptedStep(typeS, typeI, typeO, state, input, output,
                                  <<ok, newState>>))
    /\ pc' = "Step"
    /\ UNCHANGED <<adapterFrame, untypedHistory, rehydrated>>

CallAdaptedEqual ==
    /\ pc = "idle"
    /\ \E s1 \in DynVals, s2 \in DynVals, same \in BOOLEAN :
          /\ args' = <<s1, s2>>
          /\ answer' = same
          /\ Returned(adaptedEqual(typeS, s1, s2, same))
    /\ pc' = "Equal"
    /\ UNCHANGED <<adapterFrame, untypedHistory, rehydrated>>

CallAdaptedDescribeOperation ==
    /\ pc = "idle"
    /\ \E input \in DynVals, output \in DynVals :
          /\ args' = <<input, output>>
          /\ answer' = "description"
          /\ Returned(adaptedDescribeOperation(typeI, typeO, input, output, "description"))
    /\ pc' = "DescribeOperation"
    /\ UNCHANGED <<adapterFrame, untypedHistory, rehydrated>>

CallAdaptedDescribeState ==
    /\ pc = "idle"
    /\ \E state \in DynVals :
          /\ args' = <<state>>
          /\ answer' = "description"
          /\ Returned(adaptedDescribeState(typeS, state, "description"))
    /\ pc' = "DescribeState"
    /\ UNCHANGED <<adapterFrame, untypedHistory, rehydrated>>

CallTypedOperations ==
    /\ pc = "idle"
    /\ \E history \in SeqsUpTo(OpaqueOperations, MaxHist) :
          /\ untypedHistory' = history
          /\ rehydrated' = convertToTypedOperations(typeI, typeO, history)
    /\ pc' = "convertToTypedOperations"
    /\ UNCHANGED <<adapterFrame, args, answer, callback, ret>>

CallTypedEvents ==
    /\ pc = "idle"
    /\ \E history \in SeqsUpTo(OpaqueEvents, MaxHist) :
          /\ untypedHistory' = history
          /\ rehydrated' = convertToTypedEvents(typeI, typeO, history)
    /\ pc' = "convertToTypedEvents"
    /\ UNCHANGED <<adapterFrame, args, answer, callback, ret>>

NextAdapter ==
    \/ CallAdaptedStep
    \/ CallAdaptedEqual
    \/ CallAdaptedDescribeOperation
    \/ CallAdaptedDescribeState
    \/ CallTypedOperations
    \/ CallTypedEvents

SpecAdapter == InitAdapter /\ [][NextAdapter]_vars

\* The dynamic value a is of the declared type T.
OfType(T, a) ==
    /\ a # NilAny
    /\ T.kind = "concrete" => a.dyn = T.name

\* The declared types of the arguments of the adapted function that returned.
Declared ==
    CASE pc = "Step" -> <<typeS, typeI, typeO>>
      [] pc = "Equal" -> <<typeS, typeS>>
      [] pc = "DescribeOperation" -> <<typeI, typeO>>
      [] pc = "DescribeState" -> <<typeS>>
      [] OTHER -> <<>>

\* What the adapted function returns when every argument is well typed.
Forwarded ==
    IF pc = "Step" THEN <<answer[1], Erase(typeS, answer[2])>> ELSE answer

\* The declared type of the value an opaque record holds at each value field.
OperationOfType(op) == OfType(typeI, op.Input) /\ OfType(typeO, op.Output)
EventOfType(ev) ==
    IF ev.Kind = CallEvent THEN OfType(typeI, ev.Value) ELSE OfType(typeO, ev.Value)

\* C8: when a dynamic value handed to an adapted Step, Equal, DescribeOperation
\* or DescribeState, or held by an opaque history given to
\* convertToTypedOperations or convertToTypedEvents, is not of the declared
\* type, the call panics: the typed callback is not invoked and nothing (no
\* (bool, state), no partly converted history) is returned.  Otherwise the call
\* returns, the callback having been given the very values handed in; a Step
\* without transition returns success = false as data.
C8_DowncastFailureIsFatal ==
    /\ pc \in {"Step", "Equal", "DescribeOperation", "DescribeState"} =>
          IF \E k \in 1..Len(args) : ~ OfType(Declared[k], args[k])
          THEN ret.panic /\ ~ callback.invoked /\ ret.val = <<>>
          ELSE /\ ~ ret.panic
               /\ callback.invoked
               /\ Len(callback.with) = Len(args)
               /\ \A k \in 1..Len(args) : Erase(Declared[k], callback.with[k]) = args[k]
               /\ ret.val = Forwarded
               /\ (pc = "Step" /\ ~ answer[1]) => ret.val[1] = FALSE
    /\ pc = "convertToTypedOperations" =>
          IF \E j \in 1..Len(untypedHistory) : ~ OperationOfType(untypedHistory[j])
          THEN rehydrated = Panicked
          ELSE ~ rehydrated.panic /\ Len(rehydrated.val) = Len(untypedHistory)
    /\ pc = "convertToTypedEvents" =>
          IF \E j \in 1..Len(untypedHistory) : ~ EventOfType(untypedHistory[j])
          THEN rehydrated = Panicked
          ELSE ~ rehydrated.panic /\ Len(rehydrated.val) = Len(untypedHistory)

\* C8 witness: an adapted Step handed a state of the declared type and an
\* input of another type, which panics.
C8_Witness ==
    /\ pc = "Step"
    /\ OfType(typeS, args[1])
    /\ args[2] # NilAny /\ ~ OfType(typeI, args[2])
    /\ ret.panic

====
